---- MODULE Spec2Model ----
(***************************************************************************)
(* A model of edward/models/models.py: the Variational container of        *)
(* distribution layers and the three model wrappers (PyMC3Model,           *)
(* PythonModel, StanModel).                                                *)
(*                                                                         *)
(* Python lists are heap objects: `self.layers = layers` stores a          *)
(* reference to the caller's list and `self.layers += [layer]` extends     *)
(* that list in place, so the model keeps the lists in `heap` and the      *)
(* containers hold list ids.                                               *)
(***************************************************************************)
EXTENDS Integers, Sequences, FiniteSets, TLC

\* ------------------------------------------------------------------ bounds
MaxLayers == 3     \* longest list of layers
MaxBatch == 2      \* largest batch of one log_prob input
MaxSize == 2       \* largest sample size
MaxPars == 2       \* most parameters of a Stan program
MaxRows == 2       \* most rows of a sample batch zs
MaxWidth == 4      \* longest row of a sample batch zs
MaxPmVars == 2     \* most free variables of a PyMC3 model

\* ------------------------------------------------------------------ layers
\* The distribution objects handed to the container.  `reparam`, `entropy`
\* say whether the method is in the layer's class dictionary, `normal`
\* whether the layer is an instance of Normal; `ent` is the value its
\* entropy() returns and `w` fixes its log-density.
NormalLayer ==
    [name |-> "Normal", shape |-> 1, num_vars |-> 1, num_params |-> 2,
     is_multivariate |-> FALSE, reparam |-> TRUE, entropy |-> TRUE,
     normal |-> TRUE, ent |-> 3, w |-> 1]

DirichletLayer ==
    [name |-> "Dirichlet", shape |-> 2, num_vars |-> 2, num_params |-> 2,
     is_multivariate |-> TRUE, reparam |-> FALSE, entropy |-> TRUE,
     normal |-> FALSE, ent |-> 5, w |-> 2]

PointMassLayer ==
    [name |-> "PointMass", shape |-> 3, num_vars |-> 3, num_params |-> 3,
     is_multivariate |-> FALSE, reparam |-> FALSE, entropy |-> FALSE,
     normal |-> FALSE, ent |-> 0, w |-> 3]

LayerPool == {NormalLayer, DirichletLayer, PointMassLayer}

Containers == {1, 2}
CallerList == 0                       \* the list object the caller owns
ListIds == {CallerList} \cup Containers

SeqsUpTo(S, n) == UNION {[1..k -> S] : k \in 0..n}
Optional(S) == {<<>>} \cup {<<x>> : x \in S}

\* ------------------------------------------------------------------ helpers
RECURSIVE SumOf(_)
SumOf(s) == IF s = <<>> THEN 0 ELSE s[1] + SumOf(Tail(s))

RECURSIVE AllOf(_)
AllOf(s) == IF s = <<>> THEN TRUE ELSE s[1] /\ AllOf(Tail(s))

ShapeOf(l) == l.shape
NumVarsOf(l) == l.num_vars
NumParamsOf(l) == l.num_params
MultivariateOf(l) == l.is_multivariate
HasReparam(l) == l.reparam
HasEntropy(l) == l.entropy
IsNormal(l) == l.normal

VARIABLES
    heap,      \* list id -> the list's contents (a sequence of layers)
    self,      \* container -> its fields; `layers` is a list id
    adding,    \* <<>> or <<[c, layer, line]>>: the add call in progress
    obs,       \* <<>> or <<view>>: what a concurrent reader last saw
    ret,       \* <<>> or <<r>>: the last sample/log_prob/entropy call
    stan,      \* the StanModel object
    pm,        \* the PyMC3Model object
    py,        \* the PythonModel object
    ctor,      \* <<>> or <<c>>: the last StanModel(...) call and its outcome
    node,      \* <<>> or <<n>>: the py_func node of the last log_prob call
    calls,     \* the observed data of the first and of the latest
               \* StanModel.log_prob call
    ninit      \* how many times pystan.stan has instantiated the engine

varVars == <<heap, self, adding, obs, ret>>
adVars == <<stan, pm, py, ctor, node, calls, ninit>>
vars == <<heap, self, adding, obs, ret, stan, pm, py, ctor, node, calls, ninit>>

\* ---------------------------------------------------- Variational.__init__
Unbuilt ==
    [live |-> FALSE, layers |-> CallerList, shape |-> <<>>, num_vars |-> 0,
     num_params |-> 0, is_reparam |-> TRUE, is_normal |-> TRUE,
     is_entropy |-> TRUE, is_multivariate |-> <<>>]

\* layers is None: every field starts empty, on a fresh list.
InitNone(c) ==
    [live |-> TRUE, layers |-> c, shape |-> <<>>, num_vars |-> 0,
     num_params |-> 0, is_reparam |-> TRUE, is_normal |-> TRUE,
     is_entropy |-> TRUE, is_multivariate |-> <<>>]

\* layers is a list: the fields are computed from it, and self.layers is
\* the caller's list itself (no copy).
InitFrom(ref, ls) ==
    [live |-> TRUE, layers |-> ref,
     shape |-> [i \in 1..Len(ls) |-> ShapeOf(ls[i])],
     num_vars |-> SumOf([i \in 1..Len(ls) |-> NumVarsOf(ls[i])]),
     num_params |-> SumOf([i \in 1..Len(ls) |-> NumParamsOf(ls[i])]),
     is_reparam |-> AllOf([i \in 1..Len(ls) |-> HasReparam(ls[i])]),
     is_normal |-> AllOf([i \in 1..Len(ls) |-> IsNormal(ls[i])]),
     is_entropy |-> AllOf([i \in 1..Len(ls) |-> HasEntropy(ls[i])]),
     is_multivariate |-> [i \in 1..Len(ls) |-> MultivariateOf(ls[i])]]

\* The lists a caller can pass: the list it passed to a container before
\* (the same object again), or else a new list of its own.
Shared == \E c \in Containers : self[c].live /\ self[c].layers = CallerList
ListArgs == IF Shared THEN {heap[CallerList]} ELSE SeqsUpTo(LayerPool, 1)

\* layers: <<>> for None, <<ls>> for the caller's list, which holds ls.
Variational_init(c, layers) ==
    /\ adding = <<>>
    /\ ~self[c].live
    /\ IF layers # <<>>
         THEN /\ self' = [self EXCEPT ![c] = InitFrom(CallerList, layers[1])]
              /\ heap' = [heap EXCEPT ![CallerList] = layers[1]]
         ELSE /\ self' = [self EXCEPT ![c] = InitNone(c)]
              /\ heap' = [heap EXCEPT ![c] = <<>>]
    /\ UNCHANGED <<adding, obs, ret>>
    /\ UNCHANGED adVars

\* --------------------------------------------------------- Variational.add
\* The call, then its eight statements one at a time: between two of them
\* another thread can run.  What was last read or returned (obs, ret) is
\* about the layers before this call, and is dropped.
Variational_add(c, layer) ==
    /\ adding = <<>>
    /\ self[c].live
    /\ Len(heap[self[c].layers]) < MaxLayers
    /\ adding' = <<[c |-> c, layer |-> layer, line |-> 257]>>
    /\ obs' = <<>>
    /\ ret' = <<>>
    /\ UNCHANGED <<heap, self>>
    /\ UNCHANGED adVars

AtLine(n) == adding # <<>> /\ adding[1].line = n
Goto(n) == adding' = <<[adding[1] EXCEPT !.line = n]>>

\* self.layers += [layer]
Add257 ==
    /\ AtLine(257)
    /\ LET c == adding[1].c IN
         heap' = [heap EXCEPT ![self[c].layers] = Append(@, adding[1].layer)]
    /\ Goto(258)
    /\ UNCHANGED <<self, obs, ret>>
    /\ UNCHANGED adVars

\* self.shape += [layer.shape]
Add258 ==
    /\ AtLine(258)
    /\ self' = [self EXCEPT ![adding[1].c].shape = Append(@, adding[1].layer.shape)]
    /\ Goto(259)
    /\ UNCHANGED <<heap, obs, ret>>
    /\ UNCHANGED adVars

\* self.num_vars += layer.num_vars
Add259 ==
    /\ AtLine(259)
    /\ self' = [self EXCEPT ![adding[1].c].num_vars = @ + adding[1].layer.num_vars]
    /\ Goto(260)
    /\ UNCHANGED <<heap, obs, ret>>
    /\ UNCHANGED adVars

\* self.num_params += layer.num_params
Add260 ==
    /\ AtLine(260)
    /\ self' = [self EXCEPT ![adding[1].c].num_params = @ + adding[1].layer.num_params]
    /\ Goto(261)
    /\ UNCHANGED <<heap, obs, ret>>
    /\ UNCHANGED adVars

\* self.is_reparam = self.is_reparam and 'reparam' in layer.__class__.__dict__
Add261 ==
    /\ AtLine(261)
    /\ self' = [self EXCEPT ![adding[1].c].is_reparam = @ /\ HasReparam(adding[1].layer)]
    /\ Goto(262)
    /\ UNCHANGED <<heap, obs, ret>>
    /\ UNCHANGED adVars

\* self.is_entropy = self.is_entropy and 'entropy' in layer.__class__.__dict__
Add262 ==
    /\ AtLine(262)
    /\ self' = [self EXCEPT ![adding[1].c].is_entropy = @ /\ HasEntropy(adding[1].layer)]
    /\ Goto(263)
    /\ UNCHANGED <<heap, obs, ret>>
    /\ UNCHANGED adVars

\* self.is_normal = self.is_normal and isinstance(layer, Normal)
Add263 ==
    /\ AtLine(263)
    /\ self' = [self EXCEPT ![adding[1].c].is_normal = @ /\ IsNormal(adding[1].layer)]
    /\ Goto(264)
    /\ UNCHANGED <<heap, obs, ret>>
    /\ UNCHANGED adVars

\* self.is_multivariate += [layer.is_multivariate]; the call returns
Add264 ==
    /\ AtLine(264)
    /\ self' = [self EXCEPT ![adding[1].c].is_multivariate =
                                Append(@, adding[1].layer.is_multivariate)]
    /\ adding' = <<>>
    /\ UNCHANGED <<heap, obs, ret>>
    /\ UNCHANGED adVars

\* ------------------------------------------------------------- a reader
\* What a thread reading container c sees at this instant: the layers its
\* self.layers holds and every aggregate field.  The reader runs while an
\* add is in progress; its view is dropped when the next add is called.
View(c) ==
    [c |-> c, during |-> (adding # <<>> /\ adding[1].c = c),
     layers |-> heap[self[c].layers], shape |-> self[c].shape,
     num_vars |-> self[c].num_vars, num_params |-> self[c].num_params,
     is_reparam |-> self[c].is_reparam, is_normal |-> self[c].is_normal,
     is_entropy |-> self[c].is_entropy,
     is_multivariate |-> self[c].is_multivariate]

Reader(c) ==
    /\ adding # <<>>
    /\ self[c].live
    /\ obs' = <<View(c)>>
    /\ UNCHANGED <<heap, self, adding, ret>>
    /\ UNCHANGED adVars

\* Every aggregate of the view is the fold over the view's layers.
Folded(v) ==
    /\ v.shape = [i \in 1..Len(v.layers) |-> ShapeOf(v.layers[i])]
    /\ v.num_vars = SumOf([i \in 1..Len(v.layers) |-> NumVarsOf(v.layers[i])])
    /\ v.num_params = SumOf([i \in 1..Len(v.layers) |-> NumParamsOf(v.layers[i])])
    /\ v.is_multivariate = [i \in 1..Len(v.layers) |-> MultivariateOf(v.layers[i])]
    /\ v.is_reparam = AllOf([i \in 1..Len(v.layers) |-> HasReparam(v.layers[i])])
    /\ v.is_entropy = AllOf([i \in 1..Len(v.layers) |-> HasEntropy(v.layers[i])])
    /\ v.is_normal = AllOf([i \in 1..Len(v.layers) |-> IsNormal(v.layers[i])])

\* ------------------------------------------------------ values and layers
Tensor(v) == [type |-> "tensor", v |-> v]
PyList(items) == [type |-> "list", items |-> items]
Raised(e) == [type |-> "error", e |-> e]

\* layer.sample(size): the layer's (size x shape) draw, kept symbolic.
LayerSample(layer, size) ==
    [type |-> "sample", layer |-> layer.name, size |-> size, shape |-> layer.shape]

\* layer.log_prob(x): one log-density per row of the batch x.
LayerLogProb(layer, x) == Tensor([i \in 1..Len(x.v) |-> layer.w * x.v[i]])

\* layer.entropy(): a layer whose class defines no entropy fails.
LayerEntropy(layer) ==
    IF layer.entropy THEN Tensor(<<layer.ent>>) ELSE Raised("NotImplementedError")

\* a + b on two vectors, as TensorFlow broadcasts it.
TfAdd(a, b) ==
    IF a.type = "error" THEN a
    ELSE IF b.type = "error" THEN b
    ELSE IF Len(a.v) = Len(b.v) THEN Tensor([i \in 1..Len(a.v) |-> a.v[i] + b.v[i]])
    ELSE IF Len(a.v) = 1 THEN Tensor([i \in 1..Len(b.v) |-> a.v[1] + b.v[i]])
    ELSE IF Len(b.v) = 1 THEN Tensor([i \in 1..Len(a.v) |-> a.v[i] + b.v[1]])
    ELSE Raised("ValueError")

TfZeros(n) == Tensor([i \in 1..n |-> 0])

\* A sample that always returns the list, one layer or not.
Variational_sample_boxed(layers, size) ==
    PyList([l \in 1..Len(layers) |-> LayerSample(layers[l], size)])

\* ------------------------------------------------------ Variational.sample
Variational_sample(layers, size) ==
    LET samples == [l \in 1..Len(layers) |-> LayerSample(layers[l], size)]
    IN  IF Len(samples) = 1 THEN samples[1] ELSE PyList(samples)

\* ---------------------------------------------------- Variational.log_prob
\* for l, layer in enumerate(self.layers): log_prob += layer.log_prob(xs[l])
RECURSIVE LogProbLoop(_, _, _, _)
LogProbLoop(layers, xs, l, log_prob) ==
    IF l > Len(layers) \/ log_prob.type = "error" THEN log_prob
    ELSE IF l > Len(xs.items) THEN Raised("IndexError")
    ELSE LogProbLoop(layers, xs, l + 1,
                     TfAdd(log_prob, LayerLogProb(layers[l], xs.items[l])))

\* A log_prob whose loop leaves the first layer out.
Variational_log_prob_skips_first(layers, xs) ==
    IF Len(layers) = 1 THEN LayerLogProb(layers[1], xs)
    ELSE IF xs.items = <<>> THEN Raised("IndexError")
    ELSE LogProbLoop(layers, xs, 2, TfZeros(Len(xs.items[1].v)))

Variational_log_prob(layers, xs) ==
    IF Len(layers) = 1 THEN LayerLogProb(layers[1], xs)
    ELSE IF xs.items = <<>> THEN Raised("IndexError")
    ELSE LET n_minibatch == Len(xs.items[1].v)
         IN  LogProbLoop(layers, xs, 1, TfZeros(n_minibatch))

\* ----------------------------------------------------- Variational.entropy
RECURSIVE EntropyLoop(_, _, _)
EntropyLoop(layers, l, out) ==
    IF l > Len(layers) \/ out.type = "error" THEN out
    ELSE EntropyLoop(layers, l + 1, TfAdd(out, LayerEntropy(layers[l])))

\* An entropy that assigns (out = ...) where the code adds (out += ...).
Variational_entropy_overwrites(layers) ==
    IF layers = <<>> THEN Tensor(<<0>>) ELSE LayerEntropy(layers[Len(layers)])

Variational_entropy(layers) == EntropyLoop(layers, 1, Tensor(<<0>>))

\* ------------------------------------------------- the calls of a caller
\* The three queries change nothing of the container, so one query is
\* followed up to the next add: ret holds its result until then.
\* A batch of B rows; row i holds the value v + i.
Vals == {0, 1}
Batches == {Tensor([i \in 1..B |-> v + i]) : B \in 1..MaxBatch, v \in Vals}

\* The inputs of log_prob for n layers: one batch for a single layer,
\* otherwise a list with one batch per layer.
InputXs(n) == IF n = 1 THEN Batches ELSE {PyList(items) : items \in [1..n -> Batches]}

Layers(c) == heap[self[c].layers]

Call_sample(c, size) ==
    /\ adding = <<>>
    /\ ret = <<>>
    /\ self[c].live
    /\ ret' = <<[op |-> "sample", c |-> c, size |-> size,
                 val |-> Variational_sample(Layers(c), size)]>>
    /\ UNCHANGED <<heap, self, adding, obs>>
    /\ UNCHANGED adVars

Call_log_prob(c) ==
    /\ adding = <<>>
    /\ ret = <<>>
    /\ self[c].live
    /\ \E xs \in InputXs(Len(Layers(c))) :
          ret' = <<[op |-> "log_prob", c |-> c, xs |-> xs,
                    val |-> Variational_log_prob(Layers(c), xs)]>>
    /\ UNCHANGED <<heap, self, adding, obs>>
    /\ UNCHANGED adVars

Call_entropy(c) ==
    /\ adding = <<>>
    /\ ret = <<>>
    /\ self[c].live
    /\ ret' = <<[op |-> "entropy", c |-> c,
                 val |-> Variational_entropy(Layers(c))]>>
    /\ UNCHANGED <<heap, self, adding, obs>>
    /\ UNCHANGED adVars

\* ================================================================ wrappers
\* A Stan program is known here by the dimensions of its parameters, in
\* declared order: what pystan reports as model.par_dims.  <<>> is a
\* scalar, <<2>> a vector of 2, <<1, 2>> a 1 x 2 matrix.
DimPool == {<<>>, <<2>>, <<1, 2>>}
Programs == UNION {[1..k -> DimPool] : k \in 1..MaxPars}
Data == {"d1", "d2"}

RECURSIVE ProdOf(_)
ProdOf(s) == IF s = <<>> THEN 1 ELSE s[1] * ProdOf(Tail(s))

\* The batches zs: an array of S rows by W columns; row s is told from the
\* others by its tag t[s].
Row(t, W) == [j \in 1..W |-> 10 * t + j]
Batch(tags, W) == [s \in 1..Len(tags) |-> Row(tags[s], W)]
Zs == {Batch(tags, W) : tags \in SeqsUpTo({0, 1}, MaxRows), W \in 0..MaxWidth}

DataTerm(d) == IF d = "d1" THEN 0 ELSE 100

NoAdapter == ~stan.live /\ ~pm.live /\ ~py.live
Idle == IF node = <<>> THEN TRUE ELSE node[1].status # "run"

NewNode(who, zs) ==
    <<[who |-> who, zs |-> zs, s |-> 0, lp |-> [i \in 1..Len(zs) |-> 0],
       status |-> "run", e |-> "none", last |-> <<>>]>>

\* ------------------------------------------------------ StanModel.__init__
StanNone ==
    [live |-> FALSE, file |-> <<>>, model_code |-> <<>>, flag_init |-> FALSE,
     num_vars |-> <<>>, model |-> <<>>]

\* file, model_code: <<>> for None, <<program>> when supplied.  The result
\* is <<object>>, or <<>> when NotImplementedError is raised.
StanModel_new(file, model_code) ==
    IF file # <<>>
      THEN <<[StanNone EXCEPT !.live = TRUE, !.file = file]>>
    ELSE IF model_code # <<>>
      THEN <<[StanNone EXCEPT !.live = TRUE, !.model_code = model_code]>>
    ELSE <<>>

StanModel_init(file, model_code) ==
    /\ NoAdapter
    /\ LET new == StanModel_new(file, model_code) IN
         /\ stan' = IF new = <<>> THEN stan ELSE new[1]
         /\ ctor' = <<[file |-> file # <<>>, model_code |-> model_code # <<>>,
                       ok |-> new # <<>>]>>
    /\ UNCHANGED <<pm, py, node, calls, ninit>>
    /\ UNCHANGED varVars

\* ---------------------------------------------------- StanModel._initialize
\* sum([sum(dim) if sum(dim) != 0 else 1 for dim in self.model.par_dims])
NumVars(par_dims) ==
    SumOf([k \in 1..Len(par_dims) |->
              IF SumOf(par_dims[k]) # 0 THEN SumOf(par_dims[k]) ELSE 1])

\* An _initialize that never sets flag_init.
StanModel_initialize_unflagged(obj, xs) ==
    LET src == IF obj.file # <<>> THEN obj.file[1] ELSE obj.model_code[1]
    IN  [obj EXCEPT !.model = <<[par_dims |-> src, data |-> xs]>>,
                    !.num_vars = <<NumVars(src)>>]

\* hasattr(self, 'file') picks the source; the engine is built on data xs.
StanModel_initialize(obj, xs) ==
    LET src == IF obj.file # <<>> THEN obj.file[1] ELSE obj.model_code[1]
    IN  [obj EXCEPT !.model = <<[par_dims |-> src, data |-> xs]>>,
                    !.num_vars = <<NumVars(src)>>,
                    !.flag_init = TRUE]

\* ------------------------------------------------------ StanModel.log_prob
StanModel_log_prob(xs, zs) ==
    /\ stan.live
    /\ Idle
    /\ IF stan.flag_init = FALSE
         THEN /\ stan' = StanModel_initialize(stan, xs)
              /\ ninit' = ninit + 1
         ELSE UNCHANGED <<stan, ninit>>
    /\ calls' = IF calls = <<>> THEN <<xs>> ELSE <<calls[1], xs>>
    /\ node' = NewNode("stan", zs)
    /\ UNCHANGED <<pm, py, ctor>>
    /\ UNCHANGED varVars

\* -------------------------------------------------- StanModel._py_log_prob
\* z[idx:(idx+elems)]: a slice stops at the end of the row.
Slice(z, idx, end) ==
    LET stop == IF end < Len(z) THEN end ELSE Len(z)
    IN  IF idx >= stop THEN <<>> ELSE [j \in 1..(stop - idx) |-> z[idx + j]]

\* The loop over zip(par_dims, model_pars) for one row z (idx counts from
\* 0).  `taken` lists, per parameter reached, its dim and how many elements
\* were taken for it, the parameter a failure stopped at included.
RECURSIVE RowLoop(_, _, _, _, _, _)
RowLoop(par_dims, z, k, idx, z_dict, taken) ==
    IF k > Len(par_dims)
      THEN [ok |-> TRUE, e |-> "none", z_dict |-> z_dict, idx |-> idx, taken |-> taken]
    ELSE LET dim == par_dims[k]
             elems == SumOf(dim)
         IN  IF elems = 0
               THEN IF idx >= Len(z)
                      THEN [ok |-> FALSE, e |-> "IndexError", z_dict |-> z_dict,
                            idx |-> idx, taken |-> Append(taken, [dim |-> dim, n |-> 0])]
                      ELSE RowLoop(par_dims, z, k + 1, idx + 1,
                                   Append(z_dict, [par |-> k, val |-> <<z[idx + 1]>>]),
                                   Append(taken, [dim |-> dim, n |-> 1]))
               ELSE LET block == Slice(z, idx, idx + elems) IN
                    IF Len(block) # ProdOf(dim)
                      THEN [ok |-> FALSE, e |-> "ValueError", z_dict |-> z_dict,
                            idx |-> idx,
                            taken |-> Append(taken, [dim |-> dim, n |-> Len(block)])]
                      ELSE RowLoop(par_dims, z, k + 1, idx + elems,
                                   Append(z_dict, [par |-> k, val |-> block]),
                                   Append(taken, [dim |-> dim, n |-> Len(block)]))

\* model.log_prob(model.unconstrain_pars(z_dict), adjust_transform=False)
RECURSIVE DictSum(_)
DictSum(z_dict) ==
    IF z_dict = <<>> THEN 0 ELSE SumOf(z_dict[1].val) + DictSum(Tail(z_dict))

StanLogProb(model, z_dict) == DataTerm(model.data) + DictSum(z_dict)

\* A pass that rebuilds the first row whatever b is.
StanRowStep_first_row(obj, nd) ==
    LET b == nd.s
        r == RowLoop(obj.model[1].par_dims, nd.zs[1], 1, 0, <<>>, <<>>)
    IN  IF r.ok
          THEN [nd EXCEPT !.lp[b + 1] = StanLogProb(obj.model[1], r.z_dict),
                          !.s = b + 1, !.last = <<r>>]
          ELSE [nd EXCEPT !.status = "error", !.e = r.e, !.last = <<r>>]

\* One pass of `for b, z in enumerate(zs)`: row b (counted from 0) is
\* rebuilt and lp[b] set, or the error of the row ends the call.
StanRowStep(obj, nd) ==
    LET b == nd.s
        r == RowLoop(obj.model[1].par_dims, nd.zs[b + 1], 1, 0, <<>>, <<>>)
    IN  IF r.ok
          THEN [nd EXCEPT !.lp[b + 1] = StanLogProb(obj.model[1], r.z_dict),
                          !.s = b + 1, !.last = <<r>>]
          ELSE [nd EXCEPT !.status = "error", !.e = r.e, !.last = <<r>>]

Running(who) == node # <<>> /\ node[1].who = who /\ node[1].status = "run"

StanModel_py_log_prob_row ==
    /\ Running("stan")
    /\ node[1].s < Len(node[1].zs)
    /\ node' = <<StanRowStep(stan, node[1])>>
    /\ UNCHANGED <<stan, pm, py, ctor, calls, ninit>>
    /\ UNCHANGED varVars

\* return lp
StanModel_py_log_prob_return ==
    /\ Running("stan")
    /\ node[1].s = Len(node[1].zs)
    /\ node' = <<[node[1] EXCEPT !.status = "done"]>>
    /\ UNCHANGED <<stan, pm, py, ctor, calls, ninit>>
    /\ UNCHANGED varVars

\* ------------------------------------------------------------- PyMC3Model
PmNone == [live |-> FALSE, num_vars |-> 0, observed |-> <<>>]

\* num_vars = len(vars); logp and dlogp are bound to the ordering of vars.
PyMC3Model_init(n) ==
    /\ NoAdapter
    /\ pm' = [live |-> TRUE, num_vars |-> n, observed |-> <<>>]
    /\ UNCHANGED <<stan, py, ctor, node, calls, ninit>>
    /\ UNCHANGED varVars

\* self.observed.set_value(xs), then the py_func node
PyMC3Model_log_prob(xs, zs) ==
    /\ pm.live
    /\ Idle
    /\ pm' = [pm EXCEPT !.observed = <<xs>>]
    /\ node' = NewNode("pymc3", zs)
    /\ UNCHANGED <<stan, py, ctor, calls, ninit>>
    /\ UNCHANGED varVars

\* self.logp(z): the model's log-density at the flat vector z, on the
\* data the shared slot holds; a vector of the wrong length fails.
PmLogp(obj, z) ==
    IF Len(z) # obj.num_vars THEN Raised("ValueError")
    ELSE Tensor(<<DataTerm(obj.observed[1]) + SumOf(z)>>)

\* One pass of `for s in range(n_minibatch)`: lp[s] = self.logp(zs[s, :])
PmRowStep(obj, nd) ==
    LET s == nd.s
        r == PmLogp(obj, nd.zs[s + 1])
    IN  IF r.type = "error"
          THEN [nd EXCEPT !.status = "error", !.e = r.e]
          ELSE [nd EXCEPT !.lp[s + 1] = r.v[1], !.s = s + 1]

PyMC3Model_py_log_prob_row ==
    /\ Running("pymc3")
    /\ node[1].s < Len(node[1].zs)
    /\ node' = <<PmRowStep(pm, node[1])>>
    /\ UNCHANGED <<stan, pm, py, ctor, calls, ninit>>
    /\ UNCHANGED varVars

PyMC3Model_py_log_prob_return ==
    /\ Running("pymc3")
    /\ node[1].s = Len(node[1].zs)
    /\ node' = <<[node[1] EXCEPT !.status = "done"]>>
    /\ UNCHANGED <<stan, pm, py, ctor, calls, ninit>>
    /\ UNCHANGED varVars

\* ------------------------------------------------------------ PythonModel
PyNone == [live |-> FALSE, xs |-> <<>>]

PythonModel_init ==
    /\ NoAdapter
    /\ py' = [live |-> TRUE, xs |-> <<>>]
    /\ UNCHANGED <<stan, pm, ctor, node, calls, ninit>>
    /\ UNCHANGED varVars

\* self.xs = xs, then the py_func node
PythonModel_log_prob(xs, zs) ==
    /\ py.live
    /\ Idle
    /\ py' = [py EXCEPT !.xs = <<xs>>]
    /\ node' = NewNode("python", zs)
    /\ UNCHANGED <<stan, pm, ctor, calls, ninit>>
    /\ UNCHANGED varVars

\* _py_log_prob_z calls self._py_log_prob(self.xs, zs), which the base
\* class leaves unimplemented.
PythonModel_py_log_prob_z ==
    /\ Running("python")
    /\ node' = <<[node[1] EXCEPT !.status = "error", !.e = "NotImplementedError"]>>
    /\ UNCHANGED <<stan, pm, py, ctor, calls, ninit>>
    /\ UNCHANGED varVars

AdInit ==
    /\ stan = StanNone
    /\ pm = PmNone
    /\ py = PyNone
    /\ ctor = <<>>
    /\ node = <<>>
    /\ calls = <<>>
    /\ ninit = 0

AdNext ==
    \/ \E file \in Optional(Programs), model_code \in Optional(Programs) :
          StanModel_init(file, model_code)
    \/ \E xs \in Data, zs \in Zs : StanModel_log_prob(xs, zs)
    \/ StanModel_py_log_prob_row
    \/ StanModel_py_log_prob_return
    \/ \E n \in 1..MaxPmVars : PyMC3Model_init(n)
    \/ \E xs \in Data, zs \in Zs : PyMC3Model_log_prob(xs, zs)
    \/ PyMC3Model_py_log_prob_row
    \/ PyMC3Model_py_log_prob_return
    \/ PythonModel_init
    \/ \E xs \in Data, zs \in Zs : PythonModel_log_prob(xs, zs)
    \/ PythonModel_py_log_prob_z

VarInit0 ==
    /\ heap = [i \in ListIds |-> <<>>]
    /\ self = [c \in Containers |-> Unbuilt]
    /\ adding = <<>>
    /\ obs = <<>>
    /\ ret = <<>>

AddSteps ==
    \/ Add257 \/ Add258 \/ Add259 \/ Add260
    \/ Add261 \/ Add262 \/ Add263 \/ Add264

Init == VarInit0 /\ AdInit

SpecAd == Init /\ [][AdNext]_vars

VarNext ==
    \/ \E c \in Containers, layers \in Optional(ListArgs) : Variational_init(c, layers)
    \/ \E c \in Containers, layer \in LayerPool : Variational_add(c, layer)
    \/ AddSteps
    \/ \E c \in Containers : Reader(c)

SpecVar == Init /\ [][VarNext]_vars

\* One container used by one caller: construction, add, and the three
\* queries between adds.
OpsNext ==
    \/ \E layers \in Optional(ListArgs) : Variational_init(1, layers)
    \/ \E layer \in LayerPool : Variational_add(1, layer)
    \/ AddSteps
    \/ \E size \in 1..MaxSize : Call_sample(1, size)
    \/ Call_log_prob(1)
    \/ Call_entropy(1)

SpecOps == Init /\ [][OpsNext]_vars

\* C1: whenever no add is in progress, every aggregate field of every
\* constructed container is the fold over the layers its self.layers holds.
C1_AggregatesAreFolds ==
    adding = <<>> => \A c \in Containers : self[c].live => Folded(View(c))

\* C2: a reader of a container never sees the layer of an add in progress
\* in one aggregate and not in another.
C2_ReaderSeesNoPartialAdd ==
    obs # <<>> /\ obs[1].during => Folded(obs[1])
\* C6: with exactly one layer, sample(size) is that layer's sample and
\* log_prob(xs) is that layer's log_prob(xs), not a list holding it; with
\* any other number of layers sample(size) is a list with one entry per
\* layer, in layer order.
C6_SingleLayerUnwraps ==
    ret # <<>> =>
        LET r == ret[1]
            ls == Layers(r.c)
        IN  /\ (r.op = "sample" /\ Len(ls) = 1) => r.val = LayerSample(ls[1], r.size)
            /\ (r.op = "log_prob" /\ Len(ls) = 1) => r.val = LayerLogProb(ls[1], r.xs)
            /\ (r.op = "sample" /\ Len(ls) # 1) =>
                  /\ r.val.type = "list"
                  /\ Len(r.val.items) = Len(ls)
                  /\ \A l \in 1..Len(ls) : r.val.items[l] = LayerSample(ls[l], r.size)

C6_Witness ==
    /\ ret # <<>>
    /\ ret[1].op = "sample"
    /\ Len(Layers(ret[1].c)) = 1
    /\ ret[1].val.type = "sample"

\* The inputs of a log_prob call all have batch size B.
SameBatch(xs, B) == \A l \in 1..Len(xs.items) : Len(xs.items[l].v) = B

\* C7: with two or more layers and inputs that all have batch size B,
\* log_prob(xs) is a vector of length B whose i-th entry is the sum over
\* the layers l of layer_l.log_prob(xs[l])[i].
C7_LogProbIsSumOverLayers ==
    \A B \in 1..(MaxBatch + 1) :
        (/\ ret # <<>>
         /\ ret[1].op = "log_prob"
         /\ Len(Layers(ret[1].c)) >= 2
         /\ SameBatch(ret[1].xs, B)) =>
            LET r == ret[1]
                ls == Layers(r.c)
            IN  /\ r.val.type = "tensor"
                /\ Len(r.val.v) = B
                /\ \A i \in 1..B :
                      r.val.v[i] =
                        SumOf([l \in 1..Len(ls) |-> LayerLogProb(ls[l], r.xs.items[l]).v[i]])

C7_Witness ==
    /\ ret # <<>>
    /\ ret[1].op = "log_prob"
    /\ Len(Layers(ret[1].c)) = 3
    /\ SameBatch(ret[1].xs, 2)
    /\ ret[1].val.type = "tensor"

\* C8: after any adds of layers that have an entropy, entropy() is the sum
\* of the layers' entropy values, and 0 for a container with no layers.
C8_EntropyIsSum ==
    (/\ ret # <<>>
     /\ ret[1].op = "entropy"
     /\ \A l \in 1..Len(Layers(ret[1].c)) : HasEntropy(Layers(ret[1].c)[l])) =>
        ret[1].val = Tensor(<<SumOf([l \in 1..Len(Layers(ret[1].c)) |->
                                        Layers(ret[1].c)[l].ent])>>)

C8_Witness ==
    /\ ret # <<>>
    /\ ret[1].op = "entropy"
    /\ Len(Layers(ret[1].c)) = 2
    /\ \A l \in 1..2 : HasEntropy(Layers(ret[1].c)[l])
    /\ ret[1].val.type = "tensor"
\* C3: StanModel(file, model_code) is constructed only when exactly one of
\* the two is supplied; with neither and with both it fails.
C3_ExactlyOneSource ==
    ctor # <<>> => (ctor[1].ok <=> (ctor[1].file # ctor[1].model_code))

\* C4: in StanModel._py_log_prob a row whose length is not the declared
\* sum of the parameter sizes is given no log-density: the call fails.
C4_MismatchedRowFails ==
    (/\ node # <<>>
     /\ node[1].who = "stan"
     /\ Len(node[1].zs) > 0
     /\ Len(node[1].zs[1]) # stan.num_vars[1]) =>
        /\ node[1].s = 0
        /\ node[1].status # "done"

RowDensity(nd, s) ==
    IF nd.who = "stan"
      THEN StanLogProb(stan.model[1],
                       RowLoop(stan.model[1].par_dims, nd.zs[s], 1, 0, <<>>, <<>>).z_dict)
      ELSE PmLogp(pm, nd.zs[s]).v[1]

\* C9: the vector a wrapper's log_prob returns for a batch of S rows has
\* length S and its s-th entry is the log-density of the s-th row; while
\* the loop of PyMC3Model._py_log_prob or StanModel._py_log_prob runs, the
\* rows done so far are exactly the first ones, each in its own entry.
C9_OneEntryPerRowInOrder ==
    (node # <<>> /\ node[1].status # "error") =>
        LET nd == node[1] IN
        /\ Len(nd.lp) = Len(nd.zs)
        /\ nd.status = "done" => nd.s = Len(nd.zs)
        /\ nd.s <= Len(nd.zs)
        /\ \A s \in 1..Len(nd.zs) :
              nd.lp[s] = IF s <= nd.s THEN RowDensity(nd, s) ELSE 0

C9_Witness ==
    /\ node # <<>>
    /\ node[1].who = "stan"
    /\ node[1].status = "done"
    /\ Len(node[1].zs) = 2
    /\ node[1].lp[1] # node[1].lp[2]

\* How many elements a parameter of dimensions dim holds.
ShapeSize(dim) == IF dim = <<>> THEN 1 ELSE ProdOf(dim)

\* C10: rebuilding a row of the declared length, StanModel takes for each
\* parameter, in declared order, 1 element when its dim is empty and
\* otherwise exactly as many elements as its dim holds, and a row rebuilt
\* to the end has had num_vars elements taken.
C10_BlocksMatchDims ==
    (/\ node # <<>>
     /\ node[1].who = "stan"
     /\ node[1].last # <<>>
     /\ Len(node[1].zs[1]) = stan.num_vars[1]) =>
        LET r == node[1].last[1] IN
        /\ \A k \in 1..Len(r.taken) :
              /\ r.taken[k].dim = stan.model[1].par_dims[k]
              /\ r.taken[k].n = ShapeSize(r.taken[k].dim)
        /\ r.ok => r.idx = stan.num_vars[1]
====
